---------------------------- MODULE Spec2Model ----------------------------
(***************************************************************************)
(* Model of scripts/update.py: scraping of candidate host:port lines,      *)
(* semaphore-bounded validation of forward, socks4 and socks5 candidates,  *)
(* ranking by latency, the HTTP -> HTTPS fallback and publication.         *)
(*                                                                         *)
(* Text is modelled as sequences of one-character strings; time is a       *)
(* discrete clock of ticks, so that elapsed milliseconds and the aiohttp   *)
(* per-request timeout are both counted in ticks.                          *)
(***************************************************************************)
EXTENDS Integers, Sequences, FiniteSets, TLC

\* None of an Optional value; a value v that is present is <<v>>
None == <<>>

Some(v) == <<v>>

Get(o) == o[1]

(***************************************************************************)
(* Bounds and scaled configuration                                         *)
(***************************************************************************)
\* number of entries of sources.txt
MaxSources == 2
\* number of lines the fetched sources hold together
MaxLines == 2
\* largest PROXY_CONCURRENCY of a run
MaxConcurrency == 2
\* largest PROXY_MAX_PER_TYPE of a run
MaxPerType == 2
\* DEFAULT_TIMEOUT_SEC in ticks of the clock
DEFAULT_TIMEOUT_SEC == 2

(***************************************************************************)
(* Text                                                                    *)
(***************************************************************************)
\* the characters that occur, in code point order (str comparison order)
Alphabet == <<" ", "#", ".", "0", "1", "2", "3", "4", "5", "6", "7", "8", "9", ":">>

Ord(c) == CHOOSE i \in 1..Len(Alphabet) : Alphabet[i] = c

DigitChars == <<"0", "1", "2", "3", "4", "5", "6", "7", "8", "9">>

IsDigit(c) == \E i \in 1..Len(DigitChars) : DigitChars[i] = c

DigitVal(c) == (CHOOSE i \in 1..Len(DigitChars) : DigitChars[i] = c) - 1

\* s[a..b], empty when b < a
Slice(s, a, b) == IF b < a THEN <<>> ELSE SubSeq(s, a, b)

\* str comparison: lexicographic by code point, a proper prefix is smaller
RECURSIVE StrLess(_, _)
StrLess(a, b) ==
    IF b = <<>> THEN FALSE
    ELSE IF a = <<>> THEN TRUE
    ELSE IF Head(a) = Head(b) THEN StrLess(Tail(a), Tail(b))
    ELSE Ord(Head(a)) < Ord(Head(b))

RECURSIVE LStrip(_)
LStrip(s) == IF s # <<>> /\ Head(s) = " " THEN LStrip(Tail(s)) ELSE s

RECURSIVE RStrip(_)
RStrip(s) ==
    IF s # <<>> /\ s[Len(s)] = " " THEN RStrip(Slice(s, 1, Len(s) - 1)) ELSE s

Strip(s) == RStrip(LStrip(s))

\* index of the first occurrence of c in s, 0 when there is none
Find(s, c) ==
    IF \E i \in 1..Len(s) : s[i] = c
    THEN CHOOSE i \in 1..Len(s) : s[i] = c /\ \A j \in 1..(i - 1) : s[j] # c
    ELSE 0

\* \d{lo,hi}
IsDigits(s, lo, hi) ==
    /\ Len(s) >= lo
    /\ Len(s) <= hi
    /\ \A i \in 1..Len(s) : IsDigit(s[i])

\* s.split(".")
RECURSIVE SplitDots(_)
SplitDots(s) ==
    LET i == Find(s, ".")
    IN  IF i = 0 THEN <<s>>
        ELSE <<Slice(s, 1, i - 1)>> \o SplitDots(Slice(s, i + 1, Len(s)))

\* \d{1,3}(?:\.\d{1,3}){3}
IsHost(s) ==
    LET g == SplitDots(s)
    IN  Len(g) = 4 /\ \A i \in 1..4 : IsDigits(g[i], 1, 3)

\* int(s) of a digit string
RECURSIVE ParseInt(_)
ParseInt(s) ==
    IF s = <<>> THEN 0
    ELSE 10 * ParseInt(Slice(s, 1, Len(s) - 1)) + DigitVal(s[Len(s)])

\* str(n) of a natural number
RECURSIVE FormatInt(_)
FormatInt(n) ==
    IF n < 10 THEN <<DigitChars[n + 1]>>
    ELSE FormatInt(n \div 10) \o <<DigitChars[(n % 10) + 1]>>

\* PROXY_RE.match(line): the groups <<host, port>>, or None
PROXY_RE(line) ==
    LET i    == Find(line, ":")
        host == Strip(Slice(line, 1, i - 1))
        port == Strip(Slice(line, i + 1, Len(line)))
    IN  IF i > 0 /\ IsHost(host) /\ IsDigits(port, 2, 5)
        THEN Some(<<host, port>>)
        ELSE None

\* parse_candidates that keeps the port as it is spelled
RECURSIVE parse_candidates_raw(_)
parse_candidates_raw(text) ==
    IF text = <<>> THEN <<>>
    ELSE LET line == Strip(Head(text))
             rest == parse_candidates_raw(Tail(text))
             m    == PROXY_RE(line)
         IN  IF line = <<>> \/ Head(line) = "#" THEN rest
             ELSE IF m = None THEN rest
             ELSE LET port == ParseInt(Get(m)[2])
                  IN  IF 1 <= port /\ port <= 65535
                      THEN <<Get(m)[1] \o <<":">> \o Get(m)[2]>> \o rest
                      ELSE rest

\* parse_candidates: the list of "host:port" of the lines that parse
RECURSIVE parse_candidates(_)
parse_candidates(text) ==
    IF text = <<>> THEN <<>>
    ELSE LET line == Strip(Head(text))
             rest == parse_candidates(Tail(text))
             m    == PROXY_RE(line)
         IN  IF line = <<>> \/ Head(line) = "#" THEN rest
             ELSE IF m = None THEN rest
             ELSE LET port == ParseInt(Get(m)[2])
                  IN  IF 1 <= port /\ port <= 65535
                      THEN <<Get(m)[1] \o <<":">> \o FormatInt(port)>> \o rest
                      ELSE rest

\* the set of elements of a sequence
Range(s) == {s[i] : i \in 1..Len(s)}

\* sorted(S) of a set of str
RECURSIVE sorted(_)
sorted(S) ==
    IF S = {} THEN <<>>
    ELSE LET m == CHOOSE x \in S : \A y \in S : x = y \/ StrLess(x, y)
         IN  <<m>> \o sorted(S \ {m})

(***************************************************************************)
(* Proxy                                                                   *)
(***************************************************************************)
\* Proxy.hostport
hostport(p) == p.host \o <<":">> \o FormatInt(p.port)

\* to_proxies: split each "host:port" at the first colon
to_proxies(proxy_type, hostports) ==
    [i \in 1..Len(hostports) |->
        LET hp == hostports[i]
            c  == Find(hp, ":")
        IN  [type |-> proxy_type,
             host |-> Slice(hp, 1, c - 1),
             port |-> ParseInt(Slice(hp, c + 1, Len(hp)))]]


(***************************************************************************)
(* Inputs: sources.txt and the text each source URL serves                 *)
(***************************************************************************)
H1 == <<"1", ".", "1", ".", "1", ".", "1">>
H2 == <<"2", ".", "2", ".", "2", ".", "2">>

\* lines a fetched source can hold: three distinct host:port pairs, one of
\* them also spelled with blanks and a zero-padded port, and a line PROXY_RE
\* rejects (a one-digit port)
RawLines ==
    { H1 \o <<":", "8", "0">>,
      <<" ">> \o H1 \o <<" ", ":", " ", "0", "8", "0", " ">>,
      H1 \o <<":", "3", "1", "2", "8">>,
      H2 \o <<":", "8", "0">>,
      H2 \o <<":", "9">> }

RECURSIVE SeqsUpTo(_, _)
SeqsUpTo(S, n) ==
    IF n = 0 THEN {<<>>}
    ELSE LET shorter == SeqsUpTo(S, n - 1)
         IN  shorter \cup {Append(t, x) : t \in shorter, x \in S}

\* the type column of sources.txt; a missing column reads as "mixed"
SourceTypes == {"http", "https", "mixed", "socks4", "socks5", "other"}

Classes == {"forward", "socks4", "socks5"}

\* scrape_all_sources, lines 106-115, for one source: results after the
\* candidates of its text are added to the set of its class (a fetch that
\* raises is skipped, and so is a type that names no class)
Update(results, s) ==
    LET key == IF s.typ \in {"http", "https", "mixed"} THEN "forward" ELSE s.typ
    IN  IF ~s.fetched \/ key \notin Classes THEN results
        ELSE [results EXCEPT ![key] = @ \cup Range(parse_candidates(s.text))]

\* s[:n]
\* no cap
Uncapped(s, n) == s

\* s[:n]
Prefix(s, n) == Slice(s, 1, IF Len(s) < n THEN Len(s) ELSE n)

ProxyTypeOf(c) == IF c = "forward" THEN "http" ELSE c

(***************************************************************************)
(* State                                                                   *)
(***************************************************************************)
VARIABLES
    CONCURRENCY,    \* int(os.getenv("PROXY_CONCURRENCY"))
    MAX_PER_TYPE,   \* int(os.getenv("PROXY_MAX_PER_TYPE"))
    pc,             \* where main() is: start, scrape, forward, socks4,
                    \* socks5, publish, done, aborted
    nsources,       \* scrape_all_sources: the sources awaited so far
    nlines,         \* the lines those sources held
    scraped,        \* scrape_all_sources: results, class -> set of
                    \* "host:port"
    candidates,     \* forward_/socks4_/socks5_candidates, by class
    sem,            \* the Semaphore of each validation call so far: class
                    \* -> free permits
    tasks,          \* the run_one tasks of each validation call, in
                    \* gather order
    http_ok,        \* validate_forward: list of <<hostport, ms>>
    https_ok,       \* validate_forward: list of <<hostport, ms>>
    ok,             \* validate_socks: list of <<Proxy, ms>>, by class; what
                    \* it returns is main's socks4_ok and socks5_ok
    launched,       \* per class, how often each task entered its probe
    succeeded,      \* the requests that succeeded so far, as pairs
                    \* <<list, hostport>>: list is http or https for a
                    \* forward proxy, socks4 or socks5 for a SOCKS proxy
    forward_http,   \* main: the list validate_forward returned
    forward_https,  \* main: the list validate_forward returned
    working,        \* main: socks4_working and socks5_working, by class
    files,          \* the files written under proxies/: name -> content
    stats           \* stats["counts"]: label -> counts, empty before it
                    \* is built

Config == <<CONCURRENCY, MAX_PER_TYPE>>

Input == <<nsources, nlines, scraped, candidates>>

Validation == <<sem, tasks, http_ok, https_ok, ok, launched, succeeded>>

Output == <<forward_http, forward_https, working, files, stats>>

vars == <<pc, Config, Input, Validation, Output>>

Socks == {"socks4", "socks5"}

\* the order in which main() awaits the three validations
NextPhase(c) ==
    IF c = "forward" THEN "socks4" ELSE IF c = "socks4" THEN "socks5"
    ELSE "publish"

\* one entry of sources.txt: its type and what fetching its URL gives
Source(maxlen) ==
    [typ : SourceTypes, fetched : {TRUE}, text : SeqsUpTo(RawLines, maxlen)]
    \cup [typ : SourceTypes, fetched : {FALSE}, text : {<<>>}]

NoFiles == [f \in {} |-> <<>>]

Init ==
    /\ CONCURRENCY \in 1..MaxConcurrency
    /\ MAX_PER_TYPE \in 1..MaxPerType
    /\ pc = "start"
    /\ nsources = 0
    /\ nlines = 0
    /\ scraped = [c \in Classes |-> {}]
    /\ candidates = [c \in Classes |-> <<>>]
    /\ sem = [c \in {} |-> 0]
    /\ tasks = [c \in Classes |-> <<>>]
    /\ http_ok = <<>>
    /\ https_ok = <<>>
    /\ ok = [c \in Socks |-> <<>>]
    /\ launched = [c \in Classes |-> <<>>]
    /\ succeeded = {}
    /\ forward_http = <<>>
    /\ forward_https = <<>>
    /\ working = [c \in Socks |-> <<>>]
    /\ files = NoFiles
    /\ stats = NoFiles

(***************************************************************************)
(* main() up to the first validation                                       *)
(***************************************************************************)
Waiting(p) == [p |-> p, st |-> "wait", age |-> 0, life |-> 0, http_ms |-> None]

\* a task that goes back to wait for the semaphore
Requeued(t) == [p |-> t.p, st |-> "wait", age |-> 0, life |-> 0, http_ms |-> None]

Finished(t) == [p |-> t.p, st |-> "done", age |-> 0, life |-> 0, http_ms |-> None]

InFlight(t) == t.st \in {"http", "https"}

\* a semaphore with one permit too many
SemaphoreOffByOne(concurrency) == concurrency + 1

\* asyncio.Semaphore(concurrency): its free permits
Semaphore(concurrency) == concurrency

\* sem = asyncio.Semaphore(concurrency) and
\* asyncio.gather(*(run_one(p) for p in proxies))
StartValidation(c, hostports) ==
    /\ sem' = [d \in DOMAIN sem \cup {c} |->
                 IF d = c THEN Semaphore(CONCURRENCY) ELSE sem[d]]
    /\ tasks' = [tasks EXCEPT
                    ![c] = [i \in 1..Len(hostports) |->
                              Waiting(to_proxies(ProxyTypeOf(c), hostports)[i])]]
    /\ launched' = [launched EXCEPT ![c] = [i \in 1..Len(hostports) |-> 0]]

\* read_sources (line 96) raises when sources.txt is missing: main() ends
\* with the output directory made and nothing written
NoSources ==
    /\ pc = "start"
    /\ pc' = "aborted"
    /\ UNCHANGED <<Config, Input, Validation, Output>>

\* scrape_all_sources, lines 106-115: the fetch of the next source is awaited
\* and its candidates join the set of its class
ScrapeSource ==
    /\ pc \in {"start", "scrape"}
    /\ nsources < MaxSources
    /\ \E s \in Source(MaxLines - nlines) :
          /\ nlines' = nlines + Len(s.text)
          /\ scraped' = Update(scraped, s)
    /\ pc' = "scrape"
    /\ nsources' = nsources + 1
    /\ UNCHANGED <<Config, candidates, Validation, Output>>

\* main(), lines 263-274: scrape_all_sources returns, the candidates of each
\* class are sorted and capped, and validate_forward is called
Scraped ==
    /\ pc \in {"start", "scrape"}
    /\ pc' = "forward"
    /\ candidates' = [c \in Classes |-> Prefix(sorted(scraped[c]), MAX_PER_TYPE)]
    /\ StartValidation("forward", candidates'.forward)
    /\ nsources' = 0
    /\ nlines' = 0
    /\ UNCHANGED <<Config, scraped, http_ok, https_ok, ok, succeeded, Output>>

(***************************************************************************)
(* run_one: the semaphore, the requests and their timeout                  *)
(***************************************************************************)
\* a SOCKS probe that tries the plain-HTTP endpoint first
TestUrlsHttpFirst(c) == <<"http", "https">>

\* the test endpoints a probe of class c requests, in the order of its
\* requests: check_forward_proxy TEST_URL_HTTP then TEST_URL_HTTPS,
\* check_socks for url in (TEST_URL_HTTPS, TEST_URL_HTTP)
TestUrls(c) == IF c = "forward" THEN <<"http", "https">> ELSE <<"https", "http">>

\* a permit that is not given back
Leaked(s, c) == s

\* leaving async with sem: the permit goes back to the semaphore of c
Release(s, c) == [s EXCEPT ![c] = @ + 1]

\* async with sem: a waiting task takes a free permit; the waiters of an
\* asyncio.Semaphore wake in the order they began to wait
Acquire(c, i) ==
    /\ pc = c
    /\ tasks[c][i].st = "wait"
    /\ \A j \in 1..(i - 1) : tasks[c][j].st # "wait"
    /\ sem[c] > 0
    /\ sem' = [sem EXCEPT ![c] = @ - 1]
    /\ tasks' = [tasks EXCEPT ![c][i].st = TestUrls(c)[1]]
    /\ launched' = [launched EXCEPT ![c][i] = @ + 1]
    /\ UNCHANGED <<pc, Config, Input, http_ok, https_ok, ok, succeeded, Output>>

\* how one session.get can end: a response below 400 whose body is read, a
\* response with status >= 400, or an exception
Responses == {"ok", "status"}
Errors == {"connection", "tls"}
Timeout == "timeout"
Outcomes == Responses \cup Errors \cup {Timeout}

\* a timeout that fires one tick late
ExpiredLate(age) == age >= DEFAULT_TIMEOUT_SEC + 1

\* aiohttp.ClientTimeout(total=timeout_s) of the session: the timer of a
\* request has run out; it runs per request
Expired(age) == age >= DEFAULT_TIMEOUT_SEC

\* the results a request of the given age can have now: a response or an
\* error before the timeout, the timeout error when it expires
Results(age) == IF Expired(age) THEN {Timeout} ELSE Responses \cup Errors

\* an except clause that lets the timeout error pass
CaughtErrorsOnly(r) == r \in Errors

\* except Exception: every error of a request, the timeout included
Caught(r) == r \in Errors \cup {Timeout}

\* a request that raised what its except clause does not catch
Escapes(r) == r \notin Responses /\ ~Caught(r)

\* time passes while requests are in flight, none beyond its timeout
Tick ==
    /\ pc \in Classes
    /\ \E i \in 1..Len(tasks[pc]) : InFlight(tasks[pc][i])
    /\ \A i \in 1..Len(tasks[pc]) :
          InFlight(tasks[pc][i]) => ~Expired(tasks[pc][i].age)
    /\ tasks' = [tasks EXCEPT
                    ![pc] = [i \in 1..Len(tasks[pc]) |->
                               IF InFlight(tasks[pc][i])
                               THEN [tasks[pc][i] EXCEPT !.age = @ + 1, !.life = @ + 1]
                               ELSE tasks[pc][i]]]
    /\ UNCHANGED <<pc, Config, Input, sem, http_ok, https_ok, ok, launched,
                   succeeded, Output>>

\* an exception no except clause catches leaves run_one (the async with
\* returns the permit), gather re-raises it and main() ends
Abort(c, i) ==
    /\ pc' = "aborted"
    /\ sem' = Release(sem, c)
    /\ tasks' = [tasks EXCEPT ![c][i] = Finished(@)]
    /\ UNCHANGED <<http_ok, https_ok, ok, succeeded>>

\* a timer that is not restarted for the second request
ElapsedSinceLaunch(t) == t.life

\* (time.perf_counter() - start) * 1000.0 in check_forward_proxy: start is
\* taken anew before each request
Elapsed(t) == t.age

\* (time.perf_counter() - start) * 1000.0 in check_socks: start is taken
\* once, before the loop over the two endpoints
ElapsedSinceStart(t) == t.life

\* an append that loses what the list held
AppendedReplacing(list, x, ms) == IF ms # None THEN <<<<x, Get(ms)>>>> ELSE list

\* an append that does not look at ms
AppendedAlways(list, x, ms) == Append(list, <<x, IF ms # None THEN Get(ms) ELSE 0>>)

\* if ms is not None: list.append((x, ms))
Appended(list, x, ms) == IF ms # None THEN Append(list, <<x, Get(ms)>>) ELSE list

\* the requests known to have succeeded, with one more when r is "ok"
Noted(r, list, p) == IF r = "ok" THEN succeeded \cup {<<list, hostport(p)>>} ELSE succeeded

(***************************************************************************)
(* check_forward_proxy inside validate_forward.run_one                     *)
(***************************************************************************)
\* lines 142-148: the request to TEST_URL_HTTP ends; http_ms is set when it
\* succeeded; the request to TEST_URL_HTTPS follows on the same session
ForwardHttp(i, r) ==
    /\ pc = "forward"
    /\ tasks.forward[i].st = "http"
    /\ r \in Results(tasks.forward[i].age)
    /\ IF Escapes(r)
       THEN Abort("forward", i)
       ELSE /\ tasks' = [tasks EXCEPT
                           !.forward[i] =
                               [@ EXCEPT !.st = "https", !.age = 0,
                                         !.http_ms = IF r = "ok"
                                                     THEN Some(Elapsed(tasks.forward[i]))
                                                     ELSE None]]
            /\ succeeded' = Noted(r, "http", tasks.forward[i].p)
            /\ UNCHANGED <<pc, sem, http_ok, https_ok, ok>>
    /\ UNCHANGED <<Config, Input, launched, Output>>

\* lines 150-158 and 206-209: the request to TEST_URL_HTTPS ends, the probe
\* returns (http_ms, https_ms), run_one appends what is not None and leaves
\* the semaphore
ForwardHttps(i, r) ==
    /\ pc = "forward"
    /\ tasks.forward[i].st = "https"
    /\ r \in Results(tasks.forward[i].age)
    /\ IF Escapes(r)
       THEN Abort("forward", i)
       ELSE LET t        == tasks.forward[i]
                https_ms == IF r = "ok" THEN Some(Elapsed(t)) ELSE None
            IN  /\ http_ok' = Appended(http_ok, hostport(t.p), t.http_ms)
                /\ https_ok' = Appended(https_ok, hostport(t.p), https_ms)
                /\ succeeded' = Noted(r, "https", t.p)
                /\ sem' = Release(sem, "forward")
                /\ tasks' = [tasks EXCEPT !.forward[i] = Finished(@)]
                /\ UNCHANGED <<pc, ok>>
    /\ UNCHANGED <<Config, Input, launched, Output>>

(***************************************************************************)
(* check_socks inside validate_socks.run_one                               *)
(***************************************************************************)
\* run_one after check_socks returned ms: append when not None, leave the
\* semaphore
SocksReturn(c, i, ms) ==
    /\ ok' = [ok EXCEPT ![c] = Appended(@, tasks[c][i].p, ms)]
    /\ sem' = Release(sem, c)
    /\ tasks' = [tasks EXCEPT ![c][i] = Finished(@)]
    /\ UNCHANGED <<pc, http_ok, https_ok>>

\* lines 165-174, first pass of the loop: the request to TEST_URL_HTTPS ends;
\* on success the probe returns the time since start, else the loop goes on
SocksHttps(c, i, r) ==
    /\ pc = c
    /\ c \in Socks
    /\ tasks[c][i].st = "https"
    /\ r \in Results(tasks[c][i].age)
    /\ IF Escapes(r) THEN Abort(c, i)
       ELSE /\ succeeded' = Noted(r, c, tasks[c][i].p)
            /\ IF r = "ok" THEN SocksReturn(c, i, Some(ElapsedSinceStart(tasks[c][i])))
               ELSE /\ tasks' = [tasks EXCEPT
                                   ![c][i] = [@ EXCEPT !.st = "http", !.age = 0]]
                    /\ UNCHANGED <<pc, sem, http_ok, https_ok, ok>>
    /\ UNCHANGED <<Config, Input, launched, Output>>

\* lines 165-175, second pass of the loop: the request to TEST_URL_HTTP ends;
\* on success the probe returns the time since start, else None
SocksHttp(c, i, r) ==
    /\ pc = c
    /\ c \in Socks
    /\ tasks[c][i].st = "http"
    /\ r \in Results(tasks[c][i].age)
    /\ IF Escapes(r) THEN Abort(c, i)
       ELSE /\ succeeded' = Noted(r, c, tasks[c][i].p)
            /\ SocksReturn(c, i, IF r = "ok" THEN Some(ElapsedSinceStart(tasks[c][i]))
                                      ELSE None)
    /\ UNCHANGED <<Config, Input, launched, Output>>

(***************************************************************************)
(* Ranking                                                                 *)
(***************************************************************************)
\* a sort that is not stable: an outcome goes before those of equal ms
RECURSIVE SortByMsTiesReversed(_)
SortByMsTiesReversed(s) ==
    IF s = <<>> THEN <<>>
    ELSE LET init == SortByMsTiesReversed(Slice(s, 1, Len(s) - 1))
             x    == s[Len(s)]
             k    == Cardinality({j \in 1..Len(init) : init[j][2] < x[2]})
         IN  Slice(init, 1, k) \o <<x>> \o Slice(init, k + 1, Len(init))

\* a list left in the order of its appends
Unsorted(s) == s

\* list.sort(key=lambda x: x[1]): stable, ascending by ms
RECURSIVE SortByMs(_)
SortByMs(s) ==
    IF s = <<>> THEN <<>>
    ELSE LET init == SortByMs(Slice(s, 1, Len(s) - 1))
             x    == s[Len(s)]
             k    == Cardinality({j \in 1..Len(init) : init[j][2] <= x[2]})
         IN  Slice(init, 1, k) \o <<x>> \o Slice(init, k + 1, Len(init))

\* [p.hostport for p, _ms in s]
Hostports(s) == [j \in 1..Len(s) |-> hostport(s[j][1])]

\* [hp for hp, _ in s]
Firsts(s) == [j \in 1..Len(s) |-> s[j][1]]

\* tasks that are started and not awaited
AllStarted(c) == \A i \in 1..Len(tasks[c]) : tasks[c][i].st # "wait"

\* await asyncio.gather(...): every run_one of the validation has returned
AllDone(c) == \A i \in 1..Len(tasks[c]) : tasks[c][i].st = "done"

\* validate_forward, lines 211-217: both lists are sorted and their
\* host:port returned (the lists themselves end with the call); then main()
\* calls validate_socks for socks4 (line 277)
ReturnForward ==
    /\ pc = "forward"
    /\ AllDone("forward")
    /\ forward_http' = Firsts(SortByMs(http_ok))
    /\ forward_https' = Firsts(SortByMs(https_ok))
    /\ http_ok' = <<>>
    /\ https_ok' = <<>>
    /\ pc' = "socks4"
    /\ StartValidation("socks4", candidates.socks4)
    /\ UNCHANGED <<Config, Input, ok, succeeded, working, files, stats>>

\* validate_socks, lines 188-190: the list is sorted and returned; after
\* socks4 main() calls validate_socks for socks5 (line 278)
ReturnSocks(c) ==
    /\ pc = c
    /\ c \in Socks
    /\ AllDone(c)
    /\ ok' = [ok EXCEPT ![c] = SortByMs(@)]
    /\ pc' = NextPhase(c)
    /\ IF c = "socks4" THEN StartValidation("socks5", candidates.socks5)
       ELSE UNCHANGED <<sem, tasks, launched>>
    /\ UNCHANGED <<Config, Input, http_ok, https_ok, succeeded, Output>>

(***************************************************************************)
(* main(), lines 280-318: fallback, union, files and statistics            *)
(***************************************************************************)
\* a fallback that does not ask whether the https list is empty
FallbackAlways(http, https) == IF http # <<>> THEN http ELSE https

\* no fallback: the https list stays as validate_forward returned it
NoFallback(http, https) == https

\* lines 286-287: an empty https list takes a copy of a non-empty http list
Fallback(http, https) == IF https = <<>> /\ http # <<>> THEN http ELSE https

\* the four lists one after the other, neither merged nor sorted
Concatenated(http, https, socks4, socks5) == http \o https \o socks4 \o socks5

\* line 289: sorted(set(...) | set(...) | set(...) | set(...))
AllWorking(http, https, socks4, socks5) ==
    sorted(Range(http) \cup Range(https) \cup Range(socks4) \cup Range(socks5))

\* counts with candidates and working swapped
CountsSwapped(http, https, socks4, socks5, all) ==
    [http   |-> [candidates |-> Len(http), working |-> Len(candidates.forward)],
     https  |-> [candidates |-> Len(https), working |-> Len(candidates.forward)],
     socks4 |-> [candidates |-> Len(socks4), working |-> Len(candidates.socks4)],
     socks5 |-> [candidates |-> Len(socks5), working |-> Len(candidates.socks5)],
     all    |-> [candidates |-> Len(all),
                 working |-> Len(candidates.forward) + Len(candidates.socks4)
                               + Len(candidates.socks5)]]

\* counts whose "all" label forgets the SOCKS candidates
CountsForwardOnly(http, https, socks4, socks5, all) ==
    [http   |-> [candidates |-> Len(candidates.forward), working |-> Len(http)],
     https  |-> [candidates |-> Len(candidates.forward), working |-> Len(https)],
     socks4 |-> [candidates |-> Len(candidates.socks4), working |-> Len(socks4)],
     socks5 |-> [candidates |-> Len(candidates.socks5), working |-> Len(socks5)],
     all    |-> [candidates |-> Len(candidates.forward), working |-> Len(all)]]

\* stats["counts"], lines 306-315
Counts(http, https, socks4, socks5, all) ==
    [http   |-> [candidates |-> Len(candidates.forward), working |-> Len(http)],
     https  |-> [candidates |-> Len(candidates.forward), working |-> Len(https)],
     socks4 |-> [candidates |-> Len(candidates.socks4), working |-> Len(socks4)],
     socks5 |-> [candidates |-> Len(candidates.socks5), working |-> Len(socks5)],
     all    |-> [candidates |-> Len(candidates.forward) + Len(candidates.socks4)
                                  + Len(candidates.socks5),
                 working |-> Len(all)]]

\* Path.write_text: the files, with path holding content
write_text(fs, path, content) ==
    [f \in DOMAIN fs \cup {path} |-> IF f = path THEN content ELSE fs[f]]

\* a write_txt that leaves out the file of an empty list
write_txt_nonempty(fs, path, hostports) ==
    IF hostports = <<>> THEN fs ELSE write_text(fs, path, hostports)

\* write_txt: the list is written one host:port per line
write_txt(fs, path, hostports) == write_text(fs, path, hostports)

\* main(), lines 280-318

Publish ==
    /\ pc = "publish"
    /\ LET socks4_working == Hostports(ok.socks4)
           socks5_working == Hostports(ok.socks5)
           https          == Fallback(forward_http, forward_https)
           all_working    == AllWorking(forward_http, https, socks4_working,
                                        socks5_working)
           counts         == Counts(forward_http, https, socks4_working,
                                    socks5_working, all_working)
           f1             == write_txt(files, "http.txt", forward_http)
           f2             == write_txt(f1, "https.txt", https)
           f3             == write_txt(f2, "socks4.txt", socks4_working)
           f4             == write_txt(f3, "socks5.txt", socks5_working)
           f5             == write_txt(f4, "all.txt", all_working)
       IN  /\ forward_https' = https
           /\ working' = [socks4 |-> socks4_working, socks5 |-> socks5_working]
           /\ stats' = counts
           /\ files' = write_text(f5, "summary.json", counts)
    /\ pc' = "done"
    /\ UNCHANGED <<Config, Input, Validation, forward_http>>

(***************************************************************************)
(* Specification                                                           *)
(***************************************************************************)
Next ==
    \/ NoSources
    \/ ScrapeSource
    \/ Scraped
    \/ \E c \in Classes : \E i \in 1..Len(tasks[c]) : Acquire(c, i)
    \/ \E i \in 1..Len(tasks.forward) : \E r \in Outcomes : ForwardHttp(i, r)
    \/ \E i \in 1..Len(tasks.forward) : \E r \in Outcomes : ForwardHttps(i, r)
    \/ \E c \in Socks : \E i \in 1..Len(tasks[c]) : \E r \in Outcomes : SocksHttps(c, i, r)
    \/ \E c \in Socks : \E i \in 1..Len(tasks[c]) : \E r \in Outcomes : SocksHttp(c, i, r)
    \/ Tick
    \/ ReturnForward
    \/ \E c \in Socks : ReturnSocks(c)
    \/ Publish

Spec == Init /\ [][Next]_vars

\* the event loop runs whatever is ready and its timers fire
FairSpec == Spec /\ WF_vars(Next)

(***************************************************************************)
(* Vocabulary of the properties                                            *)
(***************************************************************************)
Lists == {"http", "https", "socks4", "socks5"}

ListFile ==
    [http |-> "http.txt", https |-> "https.txt", socks4 |-> "socks4.txt",
     socks5 |-> "socks5.txt", all |-> "all.txt"]

FileNames == {ListFile[l] : l \in DOMAIN ListFile} \cup {"summary.json"}

\* the probes of validation c that hold a permit
InFlightCount(c) == Cardinality({i \in 1..Len(tasks[c]) : InFlight(tasks[c][i])})

\* a comes before b in list
Before(list, a, b) ==
    \E i, j \in 1..Len(list) : i < j /\ list[i] = a /\ list[j] = b

\* list puts the host:port of every faster outcome before that of a slower
Ranked(list, outcomes) ==
    \A i, j \in 1..Len(outcomes) :
        outcomes[i][2] < outcomes[j][2] => Before(list, outcomes[i][1], outcomes[j][1])

\* the outcomes of a SOCKS validation, as <<hostport, ms>>
SocksOutcomes(c) == [j \in 1..Len(ok[c]) |-> <<hostport(ok[c][j][1]), ok[c][j][2]>>]

\* the host:port that had a successful request for list l
Passed(l) == {q[2] : q \in {r \in succeeded : r[1] = l}}

NoDuplicates(list) == \A i, j \in 1..Len(list) : i # j => list[i] # list[j]

\* scraping returned and gave no candidate of any class
NoCandidates == "forward" \in DOMAIN sem /\ \A c \in Classes : candidates[c] = <<>>

\* the request a probe of class c makes second
SecondRequest(c) == IF c = "forward" THEN "https" ELSE "http"

\* both requests of the probe ran into their timeout: the second has expired
\* and the first had
NeverResponded(c, i) ==
    /\ tasks[c][i].st = SecondRequest(c)
    /\ tasks[c][i].age = DEFAULT_TIMEOUT_SEC
    /\ tasks[c][i].life = 2 * DEFAULT_TIMEOUT_SEC

\* the host:port a validation has collected as working
Collected(c, h, hs, o) ==
    IF c = "forward" THEN Range(Firsts(h)) \cup Range(Firsts(hs))
    ELSE Range(Hostports(o[c]))

(***************************************************************************)
(* Properties                                                              *)
(***************************************************************************)
\* C1: in every state of a validation over K candidates with ceiling
\* CONCURRENCY, the probes that entered the semaphore and have not left it
\* are at most CONCURRENCY, also when K > CONCURRENCY.
C1_AtMostCInFlight == \A c \in DOMAIN sem : InFlightCount(c) <= CONCURRENCY

\* more candidates than permits, every permit taken, a probe waiting
C1_Witness ==
    \E c \in DOMAIN sem :
        /\ Len(tasks[c]) > CONCURRENCY
        /\ InFlightCount(c) = CONCURRENCY
        /\ \E i \in 1..Len(tasks[c]) : tasks[c][i].st = "wait"

\* C2: each published list among http, https, socks4 and socks5 puts a
\* successful outcome with strictly smaller elapsed time before a slower one,
\* whatever the order of completion: the lists validate_forward returns are
\* ranked by the outcomes it collected, and the files hold those lists (https
\* possibly the http list, when it has no outcome) and the SOCKS lists ranked
\* by their outcomes.
C2_RankedByElapsed ==
    [][/\ (pc = "forward" /\ pc' = "socks4") =>
             /\ Ranked(forward_http', http_ok)
             /\ Ranked(forward_https', https_ok)
             /\ Len(forward_http') = Len(http_ok)
             /\ Len(forward_https') = Len(https_ok)
       /\ (pc = "publish" /\ pc' = "done") =>
             /\ files'["http.txt"] = forward_http
             /\ \/ files'["https.txt"] = forward_https
                \/ forward_https = <<>> /\ files'["https.txt"] = forward_http
             /\ \A c \in Socks :
                   /\ Ranked(files'[ListFile[c]], SocksOutcomes(c))
                   /\ Len(files'[ListFile[c]]) = Len(ok[c])]_vars

\* two socks5 candidates succeeded and the faster is the second candidate:
\* the published list has them in the order of their times
C2_Witness ==
    /\ pc = "done"
    /\ Len(ok.socks5) = 2
    /\ ok.socks5[1][2] < ok.socks5[2][2]
    /\ files["socks5.txt"] = <<candidates.socks5[2], candidates.socks5[1]>>

\* C3: at the end of a run, if no forward candidate had a successful HTTPS
\* request and at least one had a successful HTTP request, the published
\* https list equals the published http list; if none had a successful HTTP
\* request either, the published https list is empty.
C3_Fallback ==
    pc = "done" =>
        /\ (Passed("https") = {} /\ Passed("http") # {}) =>
               files["https.txt"] = files["http.txt"]
        /\ (Passed("https") = {} /\ Passed("http") = {}) =>
               files["https.txt"] = <<>>

\* a run in which only HTTP requests succeeded published the http list twice
C3_Witness ==
    /\ pc = "done"
    /\ Passed("https") = {}
    /\ Passed("http") # {}
    /\ files["https.txt"] = files["http.txt"]
    /\ Len(files["https.txt"]) = 2

\* C4: the published all list is the lexically sorted, duplicate-free union
\* of the published http, https, socks4 and socks5 lists.
C4_AllIsSortedUnion ==
    pc = "done" =>
        /\ Range(files["all.txt"]) =
               UNION {Range(files[ListFile[l]]) : l \in Lists}
        /\ \A i, j \in 1..Len(files["all.txt"]) :
               i < j => StrLess(files["all.txt"][i], files["all.txt"][j])

\* two entries, each in the http and the https list, the http list not in
\* lexical order
C4_Witness ==
    /\ pc = "done"
    /\ Len(files["all.txt"]) = 2
    /\ files["http.txt"] = <<files["all.txt"][2], files["all.txt"][1]>>
    /\ Range(files["https.txt"]) = Range(files["http.txt"])

\* C5 as stated: when there is no candidate of any class the run aborts
\* before any output file is written.
C5_EmptyInputAborts == NoCandidates => pc # "done" /\ DOMAIN files = {}

\* C5 as amended: a run aborts, with no file written, only where sources.txt
\* cannot be read; a run without any candidate does not abort, and at its end
\* the five lists are written empty and summary.json holds zero counts.
C5_EmptyInputPublished ==
    /\ pc = "aborted" => DOMAIN files = {} /\ DOMAIN sem = {}
    /\ NoCandidates => pc # "aborted"
    /\ (NoCandidates /\ pc = "done") =>
           /\ DOMAIN files = FileNames
           /\ \A l \in DOMAIN ListFile : files[ListFile[l]] = <<>>
           /\ \A l \in DOMAIN ListFile :
                  stats[l] = [candidates |-> 0, working |-> 0]
           /\ files["summary.json"] = stats

\* a run without candidates is done and has written its six files
C5_Witness == NoCandidates /\ pc = "done" /\ DOMAIN files = FileNames

\* C6: no failure of a probe aborts the validation or the run: the run
\* aborts only before any validation began, every candidate of every class
\* has been probed once when the run publishes, and a run that validates
\* reaches the end of publishing.
C6_FailuresAbsorbed ==
    /\ [](pc = "aborted" => DOMAIN sem = {})
    /\ [](pc \in {"publish", "done"} =>
            \A c \in Classes :
                /\ Len(launched[c]) = Len(candidates[c])
                /\ \A i \in 1..Len(launched[c]) : launched[c][i] = 1)
    /\ (pc \in Classes) ~> (pc = "done")

\* one forward candidate failed both requests, the other is published
C6_Witness ==
    /\ pc = "done"
    /\ Len(candidates.forward) = 2
    /\ \E i, j \in 1..2 :
          /\ candidates.forward[i] \notin Passed("http") \cup Passed("https")
          /\ candidates.forward[j] \in Range(files["http.txt"])

\* C7 as stated, its bound: a probe whose first request never responded has
\* ended within one timeout period of its launch.
C7_WithinOneTimeout ==
    \A c \in Classes : \A i \in 1..Len(tasks[c]) :
        (tasks[c][i].st = SecondRequest(c)
           /\ tasks[c][i].life - tasks[c][i].age = DEFAULT_TIMEOUT_SEC)
        => tasks[c][i].life <= DEFAULT_TIMEOUT_SEC

\* C7 as amended: a candidate whose requests never respond is not collected
\* as working, every validation eventually finishes under fairness, and a
\* probe ends within two timeout periods of its launch, one for each of its
\* two requests.
C7_TimeoutEnforced ==
    /\ [](\A c \in Classes : \A i \in 1..Len(tasks[c]) :
            InFlight(tasks[c][i]) =>
                /\ tasks[c][i].age <= DEFAULT_TIMEOUT_SEC
                /\ tasks[c][i].life <= 2 * DEFAULT_TIMEOUT_SEC)
    /\ [][\A c \in Classes : \A i \in 1..Len(tasks[c]) :
            (NeverResponded(c, i) /\ tasks'[c][i].st = "done") =>
                /\ hostport(tasks[c][i].p) \notin Collected(c, http_ok', https_ok', ok')
                /\ pc' = pc]_vars
    /\ \A c \in Classes : (pc = c) ~> (pc = NextPhase(c))

\* a probe whose two requests both ran into the timeout, beside a finished one
C7_Witness ==
    \E c \in Classes : \E i, j \in 1..Len(tasks[c]) :
        NeverResponded(c, i) /\ tasks[c][j].st = "done"

\* C8 as stated, its particular case: every entry of the published https
\* list had a successful HTTPS request.
C8_HttpsEntriesPassedHttps ==
    pc = "done" => Range(files["https.txt"]) \subseteq Passed("https")

\* C8 as amended: every entry of the published http, socks4 and socks5 lists
\* had a successful request as a proxy of that list; every entry of the
\* published https list had a successful HTTPS request or, when no forward
\* candidate had one, a successful HTTP request.
C8_EntriesPassed ==
    pc = "done" =>
        /\ \A l \in {"http", "socks4", "socks5"} :
               Range(files[ListFile[l]]) \subseteq Passed(l)
        /\ IF Passed("https") # {}
           THEN Range(files["https.txt"]) \subseteq Passed("https")
           ELSE Range(files["https.txt"]) \subseteq Passed("http")

\* one forward candidate passed HTTPS, the other HTTP only: the https list
\* holds the first alone
C8_Witness ==
    /\ pc = "done"
    /\ Len(files["https.txt"]) = 1
    /\ Len(files["http.txt"]) >= 1
    /\ \E hp \in Range(files["http.txt"]) : hp \notin Passed("https")

\* C9: no published list holds the same host:port twice, also when the
\* sources name a host:port more than once.
C9_NoDuplicates ==
    pc = "done" => \A l \in DOMAIN ListFile : NoDuplicates(files[ListFile[l]])

\* a host:port that two sources of different classes named is in two lists
\* and once in the all list
C9_Witness ==
    /\ pc = "done"
    /\ \E hp \in Range(files["http.txt"]) : hp \in Range(files["socks4.txt"])
    /\ Len(files["all.txt"]) = 1

\* C10: in the statistics of a run the working count of every label is at
\* most its candidates count.
C10_WorkingAtMostCandidates ==
    pc = "done" =>
        /\ DOMAIN stats = DOMAIN ListFile
        /\ \A l \in DOMAIN stats : stats[l].working <= stats[l].candidates

\* every forward candidate works, and the all label counts fewer working
\* than candidates
C10_Witness ==
    /\ pc = "done"
    /\ stats.http.candidates > 0
    /\ stats.http.working = stats.http.candidates
    /\ stats.all.working >= 1
    /\ stats.all.working < stats.all.candidates

\* list keeps outcomes of equal ms in the order they have in outcomes
TiesKept(list, outcomes) ==
    \A i, j \in 1..Len(outcomes) :
        (i < j /\ outcomes[i][2] = outcomes[j][2]) =>
            Before(list, outcomes[i][1], outcomes[j][1])

C12_FallbackOnceOneWay ==
    /\ [](pc = "done" =>
            /\ files["http.txt"] = forward_http
            /\ Range(files["http.txt"]) = Passed("http")
            /\ NoDuplicates(files["http.txt"]))
    /\ [][forward_http' # forward_http => pc = "forward"]_vars
    /\ [][forward_https' # forward_https =>
            \/ pc = "forward"
            \/ /\ pc = "publish"
               /\ forward_https = <<>>
               /\ forward_https' = forward_http]_vars

\* no HTTP request succeeded and an HTTPS request did: the http list is
\* published empty beside a populated https list
C12_Witness ==
    /\ pc = "done"
    /\ files["http.txt"] = <<>>
    /\ files["https.txt"] # <<>>

\* C13 as stated: two successful outcomes of equal elapsed time appear in
\* candidate order, which is lexical by host:port.
C13_TiesInCandidateOrder ==
    pc = "done" =>
        \A c \in Socks : \A j, k \in 1..Len(ok[c]) :
            (j < k /\ ok[c][j][2] = ok[c][k][2]) =>
                StrLess(files[ListFile[c]][j], files[ListFile[c]][k])

\* C13 as amended: two successful outcomes of equal elapsed time appear in
\* the order in which they were appended, which is the order in which their
\* probes completed; the lists validate_forward and validate_socks return
\* keep that order among ties, and the SOCKS files hold the returned lists.
C13_TiesInCompletionOrder ==
    /\ [][(pc = "forward" /\ pc' = "socks4") =>
             /\ TiesKept(forward_http', http_ok)
             /\ TiesKept(forward_https', https_ok)]_vars
    /\ [][\A c \in Socks :
             (pc = c /\ pc' # c) =>
                 TiesKept(Hostports(ok'[c]), SocksOutcomes(c))]_vars
    /\ [](pc = "done" =>
            \A c \in Socks : files[ListFile[c]] = Hostports(ok[c]))

\* two socks5 outcomes of equal elapsed time are published second candidate
\* first
C13_Witness ==
    /\ pc = "done"
    /\ Len(ok.socks5) = 2
    /\ ok.socks5[1][2] = ok.socks5[2][2]
    /\ files["socks5.txt"] = <<candidates.socks5[2], candidates.socks5[1]>>

\* the place of a validation in the order main() awaits them
Order(c) == IF c = "forward" THEN 1 ELSE IF c = "socks4" THEN 2 ELSE 3

\* C14: a SOCKS probe requests the HTTPS endpoint first and the plain-HTTP
\* endpoint second; an HTTPS success ends the probe with exactly one outcome,
\* timed since the start of the probe, and the HTTP endpoint is not
\* requested; the HTTP endpoint is requested exactly when the HTTPS request
\* failed; if both fail the probe yields no outcome.
C14_SocksHttpsThenHttp ==
    /\ [][\A c \in Socks : \A i \in 1..Len(tasks[c]) :
            LET t    == tasks[c][i]
                u    == tasks'[c][i]
                won  == <<c, hostport(t.p)>> \in succeeded'
                one  == Append(ok[c], <<t.p, t.life>>)
            IN  /\ (t.st = "wait" /\ u.st # "wait") => u.st = "https"
                /\ t.st = "https" => u.st \in {"https", "http", "done"}
                /\ (t.st = "https" /\ u.st = "http") => ~won /\ ok'[c] = ok[c]
                /\ (t.st = "https" /\ u.st = "done") => won /\ ok'[c] = one
                /\ t.st = "http" => u.st \in {"http", "done"}
                /\ (t.st = "http" /\ u.st = "done") =>
                       ok'[c] = IF won THEN one ELSE ok[c]
                /\ t.st = "done" => u.st = "done"]_vars
    /\ [](\A c \in Socks : NoDuplicates(Hostports(ok[c])))

\* one SOCKS probe is at its HTTP request after its HTTPS request failed,
\* another has ended with an outcome
C14_Witness ==
    \E c \in Socks : \E i, j \in 1..Len(tasks[c]) :
        /\ tasks[c][i].st = "http"
        /\ tasks[c][j].st = "done"
        /\ hostport(tasks[c][j].p) \in Range(Hostports(ok[c]))

\* C15 as stated, its independence: the HTTPS attempt of a forward probe
\* does not wait for a hanging HTTP attempt, it is under way since the
\* launch of the probe.
C15_HttpsNotDelayedByHttp ==
    \A i \in 1..Len(tasks.forward) :
        tasks.forward[i].st = "https" =>
            tasks.forward[i].life = tasks.forward[i].age

\* C15 as amended: a forward probe always makes the HTTP attempt and then
\* the HTTPS attempt, whatever the HTTP attempt gave; each succeeds iff its
\* own response has status < 400 and its body is read, and is timed by
\* itself; the probe yields zero, one or two outcomes accordingly. The two
\* attempts run one after the other on one session: the HTTPS attempt starts
\* when the HTTP attempt has ended, at most one timeout period after launch.
C15_ForwardBothAttempts ==
    /\ [][\A i \in 1..Len(tasks.forward) :
            LET t     == tasks.forward[i]
                u     == tasks'.forward[i]
                hp    == hostport(t.p)
                http  == <<"http", hp>> \in succeeded'
                https == <<"https", hp>> \in succeeded'
            IN  /\ (t.st = "wait" /\ u.st # "wait") => u.st = "http"
                /\ t.st = "http" => u.st \in {"http", "https"}
                /\ (t.st = "http" /\ u.st = "https") =>
                       /\ u.http_ms = IF http THEN Some(t.age) ELSE None
                       /\ u.age = 0
                       /\ http_ok' = http_ok /\ https_ok' = https_ok
                /\ t.st = "https" => u.st \in {"https", "done"}
                /\ (t.st = "https" /\ u.st = "done") =>
                       /\ (t.http_ms # None) <=> http
                       /\ http_ok' = IF http
                                     THEN Append(http_ok, <<hp, Get(t.http_ms)>>)
                                     ELSE http_ok
                       /\ https_ok' = IF https
                                      THEN Append(https_ok, <<hp, t.age>>)
                                      ELSE https_ok
                /\ t.st = "done" => u.st = "done"]_vars
    /\ [](\A i \in 1..Len(tasks.forward) :
            tasks.forward[i].st = "https" =>
                tasks.forward[i].life - tasks.forward[i].age <= DEFAULT_TIMEOUT_SEC)

\* one forward probe is at its HTTPS attempt after its HTTP attempt ran into
\* the timeout, and an HTTPS outcome is recorded for a candidate whose HTTP
\* attempt did not succeed
C15_Witness ==
    /\ \E i \in 1..Len(tasks.forward) :
          /\ tasks.forward[i].st = "https"
          /\ tasks.forward[i].life - tasks.forward[i].age = DEFAULT_TIMEOUT_SEC
    /\ \E j \in 1..Len(https_ok) : https_ok[j][1] \notin Passed("http")

\* C16: the validations run one after another in the order forward, socks4,
\* socks5: a probe of a class has started only when every probe of the
\* classes before it has finished, probes are in flight in the class main()
\* awaits only, and each validation has its own semaphore, whose permits
\* change only with a probe of its class.
C16_PhasesInSequence ==
    /\ [](\A c \in Classes : \A i \in 1..Len(tasks[c]) :
            /\ tasks[c][i].st # "wait" =>
                   \A d \in Classes : Order(d) < Order(c) => AllDone(d)
            /\ InFlight(tasks[c][i]) => pc = c)
    /\ [][\A c \in DOMAIN sem :
            sem'[c] # sem[c] =>
                /\ pc = c
                /\ tasks'[c] # tasks[c]
                /\ \A d \in Classes \ {c} : tasks'[d] = tasks[d]
                /\ \A d \in DOMAIN sem \ {c} : sem'[d] = sem[d]]_vars

\* a socks4 probe holds a permit of the socks4 semaphore after the forward
\* validation ended with all its permits free
C16_Witness ==
    /\ pc = "socks4"
    /\ Len(tasks.forward) >= 1
    /\ AllDone("forward")
    /\ sem.forward = CONCURRENCY
    /\ sem.socks4 < CONCURRENCY
    /\ \E i \in 1..Len(tasks.socks4) : InFlight(tasks.socks4[i])

\* validation c has returned to main()
Returned(c) ==
    pc \in (IF c = "forward" THEN {"socks4", "socks5", "publish", "done"}
            ELSE IF c = "socks4" THEN {"socks5", "publish", "done"}
            ELSE {"publish", "done"})

\* list holds each element of set once and nothing else
HoldsOnce(list, set) == Range(list) = set /\ Len(list) = Cardinality(set)

\* the class whose candidates a list is made of
ClassOf(l) == IF l \in {"http", "https"} THEN "forward" ELSE l

\* C17: when a validation returns, its result holds exactly one record for
\* each candidate whose request succeeded and none for another candidate,
\* whatever the interleaving of the probes, and no probe of it is in flight.
C17_OneRecordPerSuccess ==
    /\ Returned("forward") =>
          /\ HoldsOnce(forward_http, Passed("http"))
          /\ pc # "done" => HoldsOnce(forward_https, Passed("https"))
    /\ \A c \in Socks : Returned(c) => HoldsOnce(Hostports(ok[c]), Passed(c))
    /\ \A c \in Classes : Returned(c) => AllDone(c) /\ InFlightCount(c) = 0
    /\ pc = "forward" =>
          /\ Range(Firsts(http_ok)) \subseteq Passed("http")
          /\ Range(Firsts(https_ok)) \subseteq Passed("https")
          /\ NoDuplicates(Firsts(http_ok)) /\ NoDuplicates(Firsts(https_ok))

\* validate_forward returned two HTTP records and one HTTPS record
C17_Witness ==
    /\ pc = "socks4"
    /\ Len(forward_http) = 2
    /\ Len(forward_https) = 1

\* C18: within a validation each candidate is probed exactly once: there is
\* one probe task for every candidate of the set, no task enters its probe
\* twice, and when the validation has returned every task has entered once,
\* also those whose probe failed or timed out.
C18_ProbedExactlyOnce ==
    \A c \in DOMAIN sem :
        /\ Len(tasks[c]) = Len(candidates[c])
        /\ Len(launched[c]) = Len(candidates[c])
        /\ \A i \in 1..Len(tasks[c]) :
              /\ hostport(tasks[c][i].p) = candidates[c][i]
              /\ launched[c][i] <= 1
              /\ launched[c][i] = 0 <=> tasks[c][i].st = "wait"
              /\ Returned(c) => launched[c][i] = 1

\* the forward validation returned after two probes, one of them without
\* any success
C18_Witness ==
    /\ pc = "socks4"
    /\ launched.forward = <<1, 1>>
    /\ \E i \in 1..2 :
          candidates.forward[i] \notin Passed("http") \cup Passed("https")

\* C19: for each class the candidates handed to the validator are at most
\* MAX_PER_TYPE and are the first of the scraped set in sorted order; no
\* other candidate is probed or published, and the candidates count of the
\* statistics is the capped size.
C19_CappedCandidates ==
    "forward" \in DOMAIN sem =>
        /\ \A c \in Classes :
              LET n == Len(candidates[c])
              IN  /\ n <= MAX_PER_TYPE
                  /\ n = MAX_PER_TYPE \/ n = Cardinality(scraped[c])
                  /\ Range(candidates[c]) \subseteq scraped[c]
                  /\ \A i, j \in 1..n :
                        i < j => StrLess(candidates[c][i], candidates[c][j])
                  /\ \A x \in scraped[c] \ Range(candidates[c]) :
                        \A i \in 1..n : StrLess(candidates[c][i], x)
                  /\ \A i \in 1..Len(tasks[c]) :
                        hostport(tasks[c][i].p) \in Range(candidates[c])
        /\ pc = "done" =>
              \A l \in Lists :
                  /\ Range(files[ListFile[l]]) \subseteq Range(candidates[ClassOf(l)])
                  /\ stats[l].candidates = Len(candidates[ClassOf(l)])
                  /\ stats[l].candidates <= MAX_PER_TYPE

\* more socks5 candidates scraped than the cap: the first in sorted order is
\* probed and published
C19_Witness ==
    /\ pc = "done"
    /\ Cardinality(scraped.socks5) > MAX_PER_TYPE
    /\ files["socks5.txt"] = candidates.socks5
    /\ Len(candidates.socks5) = MAX_PER_TYPE

\* a probe task waits for a permit
SomeWaiting == \E c \in Classes : \E i \in 1..Len(tasks[c]) : tasks[c][i].st = "wait"

\* C20: in every state of a validation the free permits plus the probes in
\* flight are CONCURRENCY; a probe returns its permit however it ends, so
\* all permits are free when the validation has returned, and under fairness
\* a candidate that waits for a permit does not wait forever.
C20_PermitsConserved ==
    /\ [](\A c \in DOMAIN sem :
            /\ sem[c] >= 0
            /\ sem[c] + InFlightCount(c) = CONCURRENCY
            /\ pc # c => sem[c] = CONCURRENCY)
    /\ SomeWaiting ~> ~SomeWaiting

\* more candidates than permits: the first probe failed and gave its permit
\* back, the second holds it
C20_Witness ==
    \E c \in DOMAIN sem :
        /\ pc = c
        /\ Len(tasks[c]) > CONCURRENCY
        /\ tasks[c][1].st = "done"
        /\ InFlight(tasks[c][2])
        /\ \A l \in Lists : hostport(tasks[c][1].p) \notin Passed(l)

=============================================================================
